---- MODULE Spec2Model ----
(***************************************************************************)
(* Streaming sign-language recognition pipeline of anmol408809/sign-lang.  *)
(*                                                                         *)
(* Two builds of the pipeline are modelled, selected by `variant`:         *)
(*   "polling"  - SignLanguageProvider (context/SignLanguageContext.tsx)   *)
(*                polling SignLanguageDetector.detectGesture               *)
(*                (utils/SignLanguageDetector.ts);                         *)
(*   "callback" - the MediaPipe-driven SignLanguageDetector with           *)
(*                startDetection/processLandmarks/makePrediction;          *)
(*   "throttled"- the SignLanguageDetector whose detectGesture throttles   *)
(*                itself with lastPredictionTime, called by its client.    *)
(*                                                                         *)
(* Probabilities and confidences are fixed-point numbers in millionths     *)
(* (1000000 stands for 1.0).  Times are milliseconds.  A frame is named by *)
(* its arrival number: the k-th landmark vector delivered by the landmark  *)
(* source is the frame k.                                                  *)
(***************************************************************************)
EXTENDS Integers, Sequences, FiniteSets, TLC

VARIABLES
  variant,              \* which build runs: "polling", "callback", "throttled"
  now,                  \* Date.now()
  \* ---- SignLanguageProvider (React state and refs)
  isMounted,            \* the provider's effect closure variable
  initState,            \* initializeDetector: "pending", "ready", "failed"
  isDetecting,
  currentPrediction,    \* "none" stands for null
  confidence,
  predictionHistory,
  modelLoaded,
  detectorRef,          \* TRUE iff detectorRef.current is a detector
  lastProcessTimeRef,
  processingRef,
  \* ---- SignLanguageDetector (fields)
  model,                \* TRUE iff this.model is not null
  isInitialized,
  sequenceBuffer,
  mediaPipe,            \* callback build: TRUE iff this.mediaPipe is not null
  camera,               \* callback build: TRUE iff the MediaPipe camera runs
  onDetection,          \* callback build: TRUE iff this.onDetection is set
  detected,             \* last value the detector handed to its client
  lastPredictionTime,   \* throttled build: this.lastPredictionTime
  frameLength,          \* the delivered frames whose length is not
                        \* LANDMARK_COUNT, each with its length
  predictionData,       \* the distribution detectGesture last read from
                        \* prediction.data(); << >> before the first one
  selectedIndex,        \* detectGesture's maxIndex for it; -1 before
  \* ---- the loading indicator of the provider
  modelLoadingProgress,
  progress,             \* initializeDetector's local `progress`
  progressInterval,     \* TRUE while the progress timer has not been cleared
  \* ---- environment
  inflight,             \* predict calls whose prediction.data() is pending
  \* ---- history variables (observers, never read by the program)
  pushCount,            \* number of frames the landmark source has delivered
  lastEmitted,          \* the most recently appended PredictionEvent
  nEmitted,             \* number of PredictionEvents appended so far
  sessionFresh,         \* TRUE from a start of detection until the first
                        \* accepted result or the next stop
  missed,               \* processed ticks without a hand since the last
                        \* frame with one (counted up to SEQUENCE_LENGTH)
  busySkip              \* TRUE once a frame was handed to processFrame
                        \* while a call was in flight

vars == << variant, now, isMounted, initState, isDetecting, currentPrediction,
           confidence, predictionHistory, modelLoaded, detectorRef,
           lastProcessTimeRef, processingRef, model, isInitialized,
           sequenceBuffer, mediaPipe, camera, onDetection, detected,
           lastPredictionTime, frameLength, inflight, pushCount, lastEmitted,
           nEmitted, sessionFresh, missed, busySkip, predictionData,
           selectedIndex, modelLoadingProgress, progress, progressInterval >>

providerVars == << isMounted, initState, isDetecting, currentPrediction,
                   confidence, predictionHistory, modelLoaded, detectorRef,
                   lastProcessTimeRef, processingRef >>

callbackVars == << mediaPipe, camera, onDetection, detected >>

\* what only one build or one observer touches
restVars == << lastPredictionTime, frameLength, busySkip, predictionData,
              selectedIndex >>

\* the loading indicator: state, local variable and timer of
\* initializeDetector
loadVars == << modelLoadingProgress, progress, progressInterval >>

(***************************************************************************)
(* Program constants                                                       *)
(***************************************************************************)
SEQUENCE_LENGTH == 30

HISTORY_LIMIT == 50

THROTTLE_MS == 500

DEDUP_MS == 1000

ACCEPT_THRESHOLD == 600000

CLEAR_THRESHOLD == 400000

labelMap == (0 :> "hello" @@ 1 :> "thankyou")

LANDMARK_COUNT == 42

PREDICT_THROTTLE_MS == 200

(***************************************************************************)
(* Bounds of the model                                                     *)
(***************************************************************************)
ClockStep == 500

MaxTicks == 33

SteadyTicks == 35

SoakTicks == 81

MaxFrames == 33

MaxInflight == 2

MaxOddFrames == 1

FineStep == 100

FineTicks == 3

DecayTicks == 56

GapTicks == 33

DedupTicks == 32
\* the probability grid of the classification check has GridPoints steps
GridPoints == 200

(***************************************************************************)
(* Inputs                                                                  *)
(***************************************************************************)
\* Outputs of model.predict: a distribution over the two classes.
Distributions ==
  { (0 :> 650000 @@ 1 :> 350000),
    (0 :> 100000 @@ 1 :> 900000),
    (0 :> 600000 @@ 1 :> 400000),
    (0 :> 500000 @@ 1 :> 500000) }

\* Numbers of landmark points MediaPipe reports for a frame: 0 stands for no
\* hand (processLandmarks is called with null), 21 is a complete hand.
LandmarkCounts == {0, 20, 21}

NoResult == [gesture |-> "none", confidence |-> 0]

NoEvent == [gesture |-> "none", confidence |-> 0, timestamp |-> 0]

(***************************************************************************)
(* Pure helpers                                                            *)
(***************************************************************************)
\* Math.max(...Array.from(predictionData))
MathMax(d) == CHOOSE m \in {d[i] : i \in DOMAIN d} :
                \A i \in DOMAIN d : d[i] <= m

\* mutant of IndexOf: lastIndexOf, the last index holding v
IndexOfLast(d, v) == CHOOSE i \in DOMAIN d :
                       d[i] = v /\ \A j \in DOMAIN d : j > i => d[j] # v

\* predictionData.indexOf(v): the first index holding v
IndexOf(d, v) == CHOOSE i \in DOMAIN d :
                   d[i] = v /\ \A j \in DOMAIN d : j < i => d[j] # v

\* mutant of Decay: the confidence is left as it is
DecayNone(c) == c

\* mutant of Decay: the factor is 0.5
DecayHalf(c) == c \div 2

\* prev * 0.9, on the fixed-point grid
Decay(c) == (c * 9) \div 10

\* Math.max(0, x)
Max0(x) == IF x < 0 THEN 0 ELSE x

\* array.slice(-n)
SliceLast(s, n) == IF Len(s) <= n THEN s ELSE SubSeq(s, Len(s) - n + 1, Len(s))

\* mutant of PushFrame: the eviction is forgotten
PushFrameNoEvict(buf, f) == Append(buf, f)

\* mutant of PushFrame: pop() instead of shift(), the newest frame is evicted
PushFramePop(buf, f) ==
  LET pushed == Append(buf, f)
  IN  IF Len(pushed) > SEQUENCE_LENGTH
        THEN SubSeq(pushed, 1, SEQUENCE_LENGTH)
        ELSE pushed

\* sequenceBuffer.push(f); if (length > SEQUENCE_LENGTH) shift()
PushFrame(buf, f) ==
  LET pushed == Append(buf, f)
  IN  IF Len(pushed) > SEQUENCE_LENGTH THEN Tail(pushed) ELSE pushed

\* mutant of Classify: the gate is `confidence > 0.7`
ClassifyGate70(d) ==
  LET maxIndex == IndexOf(d, MathMax(d))
      conf     == d[maxIndex]
  IN  IF conf > 700000
        THEN [gesture |-> labelMap[maxIndex], confidence |-> conf]
        ELSE NoResult

\* argmax, its probability, and the `confidence > 0.6` gate of the detector
Classify(d) ==
  LET maxIndex == IndexOf(d, MathMax(d))
      conf     == d[maxIndex]
  IN  IF conf > ACCEPT_THRESHOLD
        THEN [gesture |-> labelMap[maxIndex], confidence |-> conf]
        ELSE NoResult

\* the provider's `result && result.confidence > 0.6`
Accepted(result) == result # NoResult /\ result.confidence > ACCEPT_THRESHOLD

\* mutant of IsDuplicate: the window is half as long
IsDuplicateShortWindow(prev, newPrediction) ==
  /\ Len(prev) > 0
  /\ prev[Len(prev)].gesture = newPrediction.gesture
  /\ newPrediction.timestamp - prev[Len(prev)].timestamp < DEDUP_MS \div 2

\* the dedup test inside the setPredictionHistory updater
IsDuplicate(prev, newPrediction) ==
  /\ Len(prev) > 0
  /\ prev[Len(prev)].gesture = newPrediction.gesture
  /\ newPrediction.timestamp - prev[Len(prev)].timestamp < DEDUP_MS

\* mutant of HistoryUpdater: slice(0, 50), the newest events are dropped
HistoryUpdaterKeepOldest(prev, newPrediction) ==
  IF IsDuplicate(prev, newPrediction)
    THEN prev
    ELSE SubSeq(Append(prev, newPrediction), 1,
                IF Len(prev) < HISTORY_LIMIT THEN Len(prev) + 1
                                             ELSE HISTORY_LIMIT)

\* mutant of HistoryUpdater: [newPrediction, ...prev], the event is put first
HistoryUpdaterPrepend(prev, newPrediction) ==
  IF IsDuplicate(prev, newPrediction)
    THEN prev
    ELSE SliceLast(<< newPrediction >> \o prev, HISTORY_LIMIT)

\* mutant of HistoryUpdater: a duplicate refreshes the timestamp of the last
\* event, so the window slides with every dropped result
HistoryUpdaterRefresh(prev, newPrediction) ==
  IF IsDuplicate(prev, newPrediction)
    THEN [prev EXCEPT ![Len(prev)].timestamp = newPrediction.timestamp]
    ELSE SliceLast(Append(prev, newPrediction), HISTORY_LIMIT)

\* the setPredictionHistory updater
HistoryUpdater(prev, newPrediction) ==
  IF IsDuplicate(prev, newPrediction)
    THEN prev
    ELSE SliceLast(Append(prev, newPrediction), HISTORY_LIMIT)

\* a predict call: the tensor built from the buffer plus what the caller's
\* closure captured.  `seen` and `stopped` are history fields: the number of
\* the newest frame in the window, and whether detection has been stopped
\* since the call was made.
Call(window) ==
  [ window      |-> window,
    isDetecting |-> isDetecting,
    confidence  |-> confidence,
    seen        |-> pushCount + 1,
    stopped     |-> FALSE ]

\* marks the calls that are pending when detection is stopped
MarkStopped(calls) == { [c EXCEPT !.stopped = TRUE] : c \in calls }

\* mutant of NotEnoughFrames: off by one, 29 frames are taken for enough
NotEnoughFramesOffByOne(buffer) == Len(buffer) < SEQUENCE_LENGTH - 1

\* detectGesture's `this.sequenceBuffer.length < this.SEQUENCE_LENGTH`
NotEnoughFrames(buffer) == Len(buffer) < SEQUENCE_LENGTH

\* processLandmarks' `this.sequenceBuffer.length === this.SEQUENCE_LENGTH`
BufferFull(buffer) == Len(buffer) = SEQUENCE_LENGTH

\* MediaPipeDetector.processResults: x and y of every landmark point, pushed
\* onto currentFrame; the length of the frame it hands on
FlattenedLength(points) == 2 * points

\* the length of frame f, given the frames recorded as odd
FrameLen(f, lengths) ==
  IF \E r \in lengths : r.frame = f
    THEN (CHOOSE r \in lengths : r.frame = f).length
    ELSE LANDMARK_COUNT

\* tf.tensor3d([buffer]) followed by model.predict succeeds only on rows of
\* the model's input width; otherwise one of them throws
TensorAccepted(buffer, lengths) ==
  \A i \in 1..Len(buffer) : FrameLen(buffer[i], lengths) = LANDMARK_COUNT

(***************************************************************************)
(* Initial state                                                           *)
(***************************************************************************)
Init ==
  /\ variant \in {"polling", "callback", "throttled"}
  /\ now = ClockStep
  /\ isMounted = TRUE
  /\ initState = "pending"
  /\ isDetecting = FALSE
  /\ currentPrediction = "none"
  /\ confidence = 0
  /\ predictionHistory = << >>
  /\ modelLoaded = FALSE
  /\ detectorRef = FALSE
  /\ lastProcessTimeRef = 0
  /\ processingRef = FALSE
  /\ model = FALSE
  /\ isInitialized = FALSE
  /\ sequenceBuffer = << >>
  /\ mediaPipe = FALSE
  /\ camera = FALSE
  /\ onDetection = FALSE
  /\ detected = NoResult
  /\ inflight = {}
  /\ pushCount = 0
  /\ lastEmitted = NoEvent
  /\ nEmitted = 0
  /\ lastPredictionTime = 0
  /\ frameLength = {}
  /\ sessionFresh = FALSE
  /\ missed = 0
  /\ busySkip = FALSE
  /\ predictionData = << >>
  /\ selectedIndex = -1
  /\ modelLoadingProgress = 0
  /\ progress = 0
  /\ progressInterval = (variant = "polling")

(***************************************************************************)
(* SignLanguageProvider with the polling SignLanguageDetector              *)
(***************************************************************************)
\* mutant of dispose: isInitialized is left set
disposeKeepsInitialized ==
  /\ model' = FALSE
  /\ sequenceBuffer' = << >>
  /\ isInitialized' = isInitialized

\* SignLanguageDetector.dispose()
dispose ==
  /\ model' = FALSE
  /\ sequenceBuffer' = << >>
  /\ isInitialized' = FALSE

\* initializeDetector: `await newDetector.initialize()` settles.  ok = FALSE
\* is initialize() throwing: the model file did not load and
\* createFallbackModel threw, before or after it assigned this.model, so
\* the detector is left with or without a model and with isInitialized
\* unset.  When initialize() succeeds after the unmount the detector is
\* disposed.
initializeDetector(ok) ==
  /\ variant = "polling"
  /\ initState = "pending"
  /\ initState' = IF ok THEN "ready" ELSE "failed"
  /\ IF ok /\ isMounted
       THEN /\ model' = TRUE
            /\ isInitialized' = TRUE
            /\ detectorRef' = TRUE
            /\ modelLoaded' = TRUE
       ELSE /\ IF ok THEN model' = FALSE ELSE model' \in BOOLEAN
            /\ isInitialized' = FALSE
            /\ UNCHANGED << detectorRef, modelLoaded >>
  /\ modelLoadingProgress' = IF ~isMounted THEN modelLoadingProgress
                             ELSE IF ok THEN 100 ELSE 0
  /\ progressInterval' = IF ok THEN FALSE ELSE progressInterval
  /\ UNCHANGED progress
  /\ UNCHANGED << variant, restVars, sessionFresh, missed, now, isMounted,
                  isDetecting, currentPrediction,
                  confidence, predictionHistory, lastProcessTimeRef,
                  processingRef, sequenceBuffer, callbackVars, inflight,
                  pushCount, lastEmitted, nEmitted >>

\* the increments Math.random() * 15 of the simulated progress, in percent
ProgressSteps == {0, 4, 9, 14}

\* the 200 ms timer of initializeDetector fires: it clears itself once the
\* provider is unmounted, otherwise it advances `progress`, stops at 90 and
\* shows the value
progressTick(step) ==
  /\ variant = "polling"
  /\ progressInterval
  /\ IF ~isMounted
       THEN /\ progressInterval' = FALSE
            /\ UNCHANGED << progress, modelLoadingProgress >>
       ELSE LET raised == progress + step
            IN  /\ progress' = IF raised >= 90 THEN 90 ELSE raised
                /\ progressInterval' = ~(raised >= 90)
                /\ modelLoadingProgress' = progress'
  /\ UNCHANGED << variant, restVars, sessionFresh, missed, now, providerVars,
                  model, isInitialized, sequenceBuffer, callbackVars,
                  inflight, pushCount, lastEmitted, nEmitted >>

\* the cleanup returned by the provider's mount effect
unmount ==
  /\ variant = "polling"
  /\ isMounted
  /\ isMounted' = FALSE
  /\ IF detectorRef
       THEN dispose /\ detectorRef' = FALSE
       ELSE UNCHANGED << model, sequenceBuffer, isInitialized, detectorRef >>
  /\ UNCHANGED << variant, restVars, loadVars, sessionFresh, missed, now, initState,
                  isDetecting, currentPrediction,
                  confidence, predictionHistory, modelLoaded,
                  lastProcessTimeRef, processingRef, callbackVars, inflight,
                  pushCount, lastEmitted, nEmitted >>

startDetection ==
  /\ variant = "polling"
  /\ isMounted
  /\ modelLoaded /\ detectorRef
  /\ isDetecting' = TRUE
  /\ sessionFresh' = (~isDetecting \/ sessionFresh)
  /\ UNCHANGED << variant, restVars, loadVars, missed, now, isMounted, initState,
                  currentPrediction,
                  confidence, predictionHistory, modelLoaded, detectorRef,
                  lastProcessTimeRef, processingRef, model, isInitialized,
                  sequenceBuffer, callbackVars, inflight, pushCount,
                  lastEmitted, nEmitted >>

\* mutant of stopDetection: the stop also empties predictionHistory
stopDetectionClearsHistory ==
  /\ variant = "polling"
  /\ isMounted
  /\ isDetecting' = FALSE
  /\ currentPrediction' = "none"
  /\ confidence' = 0
  /\ processingRef' = FALSE
  /\ predictionHistory' = << >>
  /\ inflight' = MarkStopped(inflight)
  /\ sessionFresh' = FALSE
  /\ UNCHANGED << variant, restVars, loadVars, missed, now, isMounted, initState,
                  modelLoaded, detectorRef, lastProcessTimeRef, model,
                  isInitialized, sequenceBuffer, callbackVars, pushCount,
                  lastEmitted, nEmitted >>

stopDetection ==
  /\ variant = "polling"
  /\ isMounted
  /\ isDetecting' = FALSE
  /\ currentPrediction' = "none"
  /\ confidence' = 0
  /\ processingRef' = FALSE
  /\ inflight' = MarkStopped(inflight)
  /\ sessionFresh' = FALSE
  /\ UNCHANGED << variant, restVars, loadVars, missed, now, isMounted, initState,
                  predictionHistory,
                  modelLoaded, detectorRef, lastProcessTimeRef, model,
                  isInitialized, sequenceBuffer, callbackVars, pushCount,
                  lastEmitted, nEmitted >>

clearHistory ==
  /\ variant = "polling"
  /\ isMounted
  /\ predictionHistory' = << >>
  /\ UNCHANGED << variant, restVars, loadVars, sessionFresh, missed, now, isMounted,
                  initState, isDetecting,
                  currentPrediction, confidence, modelLoaded, detectorRef,
                  lastProcessTimeRef, processingRef, model, isInitialized,
                  sequenceBuffer, callbackVars, inflight, pushCount, lastEmitted, nEmitted >>

\* mutant of afterDetect: a duplicate is dropped before the confidence and
\* the current gesture are set
afterDetectSkipDuplicate(result, capDetecting, capConfidence) ==
  IF ~capDetecting
    THEN UNCHANGED << currentPrediction, confidence, predictionHistory,
                      lastEmitted, nEmitted, sessionFresh >>
    ELSE IF Accepted(result)
      THEN LET newPrediction == [ gesture    |-> result.gesture,
                                  confidence |-> result.confidence,
                                  timestamp  |-> now ]
               updated == HistoryUpdater(predictionHistory, newPrediction)
           IN  /\ currentPrediction' =
                    IF IsDuplicate(predictionHistory, newPrediction)
                      THEN currentPrediction ELSE result.gesture
               /\ confidence' =
                    IF IsDuplicate(predictionHistory, newPrediction)
                      THEN confidence ELSE result.confidence
               /\ predictionHistory' = updated
               /\ sessionFresh' = FALSE
               /\ IF IsDuplicate(predictionHistory, newPrediction)
                    THEN UNCHANGED << lastEmitted, nEmitted >>
                    ELSE /\ lastEmitted' = newPrediction
                         /\ nEmitted' = nEmitted + 1
      ELSE /\ confidence' = Max0(Decay(confidence))
           /\ currentPrediction' = IF capConfidence < CLEAR_THRESHOLD
                                     THEN "none"
                                     ELSE currentPrediction
           /\ UNCHANGED << predictionHistory, lastEmitted, nEmitted,
                           sessionFresh >>

\* processFrame after `await detectGesture(canvas)`: the code from the
\* `if (!isDetecting)` test to the end of the try block.  capDetecting and
\* capConfidence are the values of isDetecting and confidence in the closure
\* of the processFrame that made the call.
afterDetect(result, capDetecting, capConfidence) ==
  IF ~capDetecting
    THEN UNCHANGED << currentPrediction, confidence, predictionHistory,
                      lastEmitted, nEmitted, sessionFresh >>
    ELSE IF Accepted(result)
      THEN LET newPrediction == [ gesture    |-> result.gesture,
                                  confidence |-> result.confidence,
                                  timestamp  |-> now ]
               updated == HistoryUpdater(predictionHistory, newPrediction)
           IN  /\ currentPrediction' = result.gesture
               /\ confidence' = result.confidence
               /\ predictionHistory' = updated
               /\ sessionFresh' = FALSE
               /\ IF IsDuplicate(predictionHistory, newPrediction)
                    THEN UNCHANGED << lastEmitted, nEmitted >>
                    ELSE /\ lastEmitted' = newPrediction
                         /\ nEmitted' = nEmitted + 1
      ELSE /\ confidence' = Max0(Decay(confidence))
           /\ currentPrediction' = IF capConfidence < CLEAR_THRESHOLD
                                     THEN "none"
                                     ELSE currentPrediction
           /\ UNCHANGED << predictionHistory, lastEmitted, nEmitted,
                           sessionFresh >>

\* SignLanguageDetector.detectGesture up to its `await prediction.data()`:
\* the buffer it leaves, whether it pushed a frame, and whether it went on to
\* model.predict (otherwise it returned null).  hand = FALSE is
\* extractHandLandmarks returning null.
detectGesture(hand) ==
  IF ~isInitialized \/ ~model \/ ~hand
    THEN [buffer |-> sequenceBuffer, pushed |-> FALSE, predicts |-> FALSE]
    ELSE LET buffer == PushFrame(sequenceBuffer, pushCount + 1)
         IN  [ buffer   |-> buffer,
               pushed   |-> TRUE,
               predicts |-> ~NotEnoughFrames(buffer) ]

\* processFrame up to the point where detectGesture suspends at
\* `await prediction.data()`, or to its end when detectGesture returns null
\* without suspending.  The observer `missed` is left to the caller: see
\* processFrameCounted.
processFrame(hand) ==
  /\ variant = "polling"
  /\ detectorRef /\ isDetecting /\ modelLoaded /\ ~processingRef
  /\ ~(now - lastProcessTimeRef < THROTTLE_MS)
  /\ lastProcessTimeRef' = now
  /\ LET call == detectGesture(hand)
     IN  /\ sequenceBuffer' = call.buffer
         /\ pushCount' = IF call.pushed THEN pushCount + 1 ELSE pushCount
         /\ IF call.predicts
              THEN /\ inflight' = inflight \cup {Call(call.buffer)}
                   /\ processingRef' = TRUE
                   /\ UNCHANGED << currentPrediction, confidence,
                                   predictionHistory, lastEmitted, nEmitted,
                                   sessionFresh >>
              ELSE /\ afterDetect(NoResult, isDetecting, confidence)
                   /\ processingRef' = FALSE
                   /\ UNCHANGED inflight
  /\ UNCHANGED << variant, restVars, loadVars, now, isMounted, initState, isDetecting,
                  modelLoaded, detectorRef, model, isInitialized,
                  callbackVars >>

\* processFrame handed a canvas while processingRef is set: it returns at
\* its first test, before detectGesture is called, so nothing of the
\* program changes; busySkip observes that it happened.  hand tells whether
\* the canvas shows a hand.
processFrameBusy(hand) ==
  /\ variant = "polling"
  /\ detectorRef /\ isDetecting /\ modelLoaded /\ processingRef
  /\ hand
  /\ ~busySkip
  /\ busySkip' = TRUE
  /\ UNCHANGED << variant, loadVars, predictionData,
                  selectedIndex, lastPredictionTime, frameLength, sessionFresh,
                  missed, now, providerVars, model, isInitialized,
                  sequenceBuffer, callbackVars, inflight, pushCount,
                  lastEmitted, nEmitted >>

\* `await prediction.data()` of call c resolves with distribution d; the
\* detector classifies it and processFrame runs to its end.
predictResolved(c, d) ==
  /\ variant = "polling"
  /\ c \in inflight
  /\ inflight' = inflight \ {c}
  /\ afterDetect(Classify(d), c.isDetecting, c.confidence)
  /\ processingRef' = FALSE
  /\ UNCHANGED << variant, restVars, loadVars, missed, now, isMounted, initState,
                  isDetecting,
                  modelLoaded, detectorRef, lastProcessTimeRef, model,
                  isInitialized, sequenceBuffer, callbackVars, pushCount >>

\* model.predict or prediction.data() of call c throws: detectGesture's catch
\* returns null and processFrame runs to its end.
predictFailed(c) ==
  /\ variant = "polling"
  /\ c \in inflight
  /\ inflight' = inflight \ {c}
  /\ afterDetect(NoResult, c.isDetecting, c.confidence)
  /\ processingRef' = FALSE
  /\ UNCHANGED << variant, restVars, loadVars, missed, now, isMounted, initState,
                  isDetecting,
                  modelLoaded, detectorRef, lastProcessTimeRef, model,
                  isInitialized, sequenceBuffer, callbackVars, pushCount >>

\* WebcamFeed's detectFrame loop calls processFrame on every animation frame,
\* many times per ClockStep: the condition under which such a call gets past
\* processFrame's early returns.
FrameDue ==
  /\ variant = "polling"
  /\ detectorRef /\ isDetecting /\ modelLoaded /\ ~processingRef
  /\ ~(now - lastProcessTimeRef < THROTTLE_MS)

\* the clock advances by one step; it cannot while a frame is due, because
\* the loop delivers that frame first
Tick(limit) ==
  /\ variant = "polling"
  /\ now < ClockStep * limit
  /\ ~FrameDue
  /\ now' = now + ClockStep
  /\ UNCHANGED << variant, restVars, loadVars, sessionFresh, missed, providerVars, model,
                  isInitialized, sequenceBuffer,
                  callbackVars, inflight, pushCount, lastEmitted,
                  nEmitted >>

(***************************************************************************)
(* The callback-driven SignLanguageDetector (MediaPipe camera)             *)
(***************************************************************************)
\* SignLanguageDetector.initialize(); ok = FALSE is loadOrTrainModel throwing
Detector_initialize(ok) ==
  /\ variant = "callback"
  /\ initState = "pending"
  /\ initState' = IF ok THEN "ready" ELSE "failed"
  /\ mediaPipe' = TRUE
  /\ model' = ok
  /\ isInitialized' = ok
  /\ UNCHANGED << variant, restVars, loadVars, sessionFresh, missed, now, isMounted,
                  isDetecting, currentPrediction,
                  confidence, predictionHistory, modelLoaded, detectorRef,
                  lastProcessTimeRef, processingRef, sequenceBuffer, camera,
                  onDetection, detected, inflight, pushCount, lastEmitted,
                  nEmitted >>

\* SignLanguageDetector.startDetection(videoElement, onDetection)
Detector_startDetection ==
  /\ variant = "callback"
  /\ isInitialized /\ mediaPipe
  /\ onDetection' = TRUE
  /\ sequenceBuffer' = << >>
  /\ camera' = TRUE
  /\ UNCHANGED << variant, restVars, loadVars, sessionFresh, missed, now, providerVars,
                  model, isInitialized, mediaPipe,
                  detected, inflight, pushCount, lastEmitted, nEmitted >>

\* SignLanguageDetector.stopDetection()
Detector_stopDetection ==
  /\ variant = "callback"
  /\ camera' = FALSE
  /\ sequenceBuffer' = << >>
  /\ onDetection' = FALSE
  /\ inflight' = MarkStopped(inflight)
  /\ UNCHANGED << variant, restVars, loadVars, sessionFresh, missed, now, providerVars,
                  model, isInitialized, mediaPipe,
                  detected, pushCount, lastEmitted, nEmitted >>

\* SignLanguageDetector.dispose()
Detector_dispose ==
  /\ variant = "callback"
  /\ mediaPipe \/ model \/ isInitialized
  /\ camera' = FALSE
  /\ sequenceBuffer' = << >>
  /\ onDetection' = FALSE
  /\ mediaPipe' = FALSE
  /\ model' = FALSE
  /\ isInitialized' = FALSE
  /\ inflight' = MarkStopped(inflight)
  /\ UNCHANGED << variant, restVars, loadVars, sessionFresh, missed, now, providerVars,
                  detected, pushCount,
                  lastEmitted, nEmitted >>

\* processLandmarks, called by the MediaPipe camera for every video frame
\* with what processResults made of it, and makePrediction up to its
\* `await prediction.data()`.  points = 0 is the call with landmarks = null.
processLandmarks(points) ==
  /\ variant = "callback"
  /\ camera
  /\ IF points = 0 \/ ~model
       THEN /\ detected' = IF onDetection THEN NoResult ELSE detected
            /\ UNCHANGED << sequenceBuffer, pushCount, inflight, frameLength >>
       ELSE LET frame   == pushCount + 1
                buffer  == PushFrame(sequenceBuffer, frame)
                lengths ==
                  IF FlattenedLength(points) = LANDMARK_COUNT
                    THEN frameLength
                    ELSE frameLength \cup
                           {[frame |-> frame, length |-> FlattenedLength(points)]}
            IN  /\ pushCount < MaxFrames
                /\ Cardinality(lengths) <= MaxOddFrames
                /\ sequenceBuffer' = buffer
                /\ pushCount' = frame
                /\ frameLength' = lengths
                /\ IF /\ BufferFull(buffer)
                      /\ ~(~model \/ NotEnoughFrames(buffer))
                      /\ TensorAccepted(buffer, lengths)
                     THEN /\ Cardinality(inflight) < MaxInflight
                          /\ inflight' = inflight \cup {Call(buffer)}
                     ELSE UNCHANGED inflight
                /\ UNCHANGED detected
  /\ UNCHANGED << variant, loadVars, predictionData,
                  selectedIndex, lastPredictionTime, busySkip, sessionFresh, missed,
                  now, providerVars, model, isInitialized, mediaPipe, camera,
                  onDetection, lastEmitted, nEmitted >>

\* makePrediction after `await prediction.data()` resolved with d
makePredictionResolved(c, d) ==
  /\ variant = "callback"
  /\ c \in inflight
  /\ inflight' = inflight \ {c}
  /\ LET maxIndex == IndexOf(d, MathMax(d))
         conf     == d[maxIndex]
     IN  detected' =
           IF conf > ACCEPT_THRESHOLD /\ onDetection
             THEN [gesture |-> labelMap[maxIndex], confidence |-> conf]
             ELSE IF onDetection THEN NoResult ELSE detected
  /\ UNCHANGED << variant, restVars, loadVars, sessionFresh, missed, now, providerVars,
                  model, isInitialized,
                  sequenceBuffer, mediaPipe, camera, onDetection, pushCount,
                  lastEmitted, nEmitted >>

\* model.predict or prediction.data() throws inside makePrediction
makePredictionFailed(c) ==
  /\ variant = "callback"
  /\ c \in inflight
  /\ inflight' = inflight \ {c}
  /\ UNCHANGED << variant, restVars, loadVars, sessionFresh, missed, now, providerVars,
                  model, isInitialized,
                  sequenceBuffer, callbackVars, pushCount, lastEmitted,
                  nEmitted >>

(***************************************************************************)
(* The SignLanguageDetector that throttles itself (lastPredictionTime)     *)
(***************************************************************************)
InitOutcomes == {"loaded", "trained", "nomodel", "untrained"}

\* SignLanguageDetector.initialize(): the saved model loads, or
\* createWorkingModel builds and trains one, or createWorkingModel throws
\* before ("nomodel") or after ("untrained") this.model is assigned.
Throttled_initialize(outcome) ==
  /\ variant = "throttled"
  /\ initState = "pending"
  /\ initState' = IF outcome \in {"loaded", "trained"} THEN "ready"
                                                       ELSE "failed"
  /\ model' = (outcome # "nomodel")
  /\ isInitialized' = (outcome \in {"loaded", "trained"})
  /\ UNCHANGED << variant, restVars, loadVars, sessionFresh, missed, now, isMounted,
                  isDetecting, currentPrediction, confidence,
                  predictionHistory, modelLoaded, detectorRef,
                  lastProcessTimeRef, processingRef, sequenceBuffer,
                  callbackVars, inflight, pushCount, lastEmitted, nEmitted >>

\* a predict call of the throttled detector: `now` is the local constant
\* taken from Date.now() at the head of detectGesture
ThrottledCall(window) ==
  [ window  |-> window,
    now     |-> now,
    seen    |-> pushCount + 1,
    stopped |-> FALSE ]

\* detectGesture up to `await prediction.data()`, or to its `return null`
Throttled_detectGesture(hand) ==
  /\ variant = "throttled"
  /\ isInitialized /\ model
  /\ ~(now - lastPredictionTime < PREDICT_THROTTLE_MS)
  /\ hand
  /\ pushCount < MaxFrames
  /\ LET pushed == Append(sequenceBuffer, pushCount + 1)
         buffer == IF Len(pushed) > SEQUENCE_LENGTH
                     THEN SliceLast(pushed, SEQUENCE_LENGTH)
                     ELSE pushed
     IN  /\ sequenceBuffer' = buffer
         /\ pushCount' = pushCount + 1
         /\ IF NotEnoughFrames(buffer)
              THEN /\ detected' = NoResult
                   /\ UNCHANGED inflight
              ELSE /\ Cardinality(inflight) < MaxInflight
                   /\ inflight' = inflight \cup {ThrottledCall(buffer)}
                   /\ UNCHANGED detected
  /\ UNCHANGED << variant, restVars, loadVars, sessionFresh, missed, now, providerVars,
                  model, isInitialized, mediaPipe, camera, onDetection,
                  lastEmitted, nEmitted >>

\* detectGesture after `await prediction.data()` resolved with d
Throttled_predictResolved(c, d) ==
  /\ variant = "throttled"
  /\ c \in inflight
  /\ inflight' = inflight \ {c}
  /\ lastPredictionTime' = c.now
  /\ detected' = Classify(d)
  /\ UNCHANGED << variant, loadVars, predictionData,
                  selectedIndex, frameLength, busySkip, sessionFresh, missed, now,
                  providerVars, model, isInitialized, sequenceBuffer,
                  mediaPipe, camera, onDetection, pushCount, lastEmitted,
                  nEmitted >>

\* model.predict or prediction.data() throws: the catch returns null
Throttled_predictFailed(c) ==
  /\ variant = "throttled"
  /\ c \in inflight
  /\ inflight' = inflight \ {c}
  /\ detected' = NoResult
  /\ UNCHANGED << variant, restVars, loadVars, sessionFresh, missed, now, providerVars,
                  model, isInitialized, sequenceBuffer, mediaPipe, camera,
                  onDetection, pushCount, lastEmitted, nEmitted >>

\* SignLanguageDetector.dispose()
Throttled_dispose ==
  /\ variant = "throttled"
  /\ model \/ isInitialized
  /\ dispose
  /\ UNCHANGED << variant, restVars, loadVars, sessionFresh, missed, now, providerVars,
                  callbackVars, inflight, pushCount, lastEmitted, nEmitted >>

\* the clock of the throttled build advances by a step finer than its
\* throttle interval
FineTick ==
  /\ variant = "throttled"
  /\ now < ClockStep + FineStep * FineTicks
  /\ now' = now + FineStep
  /\ UNCHANGED << variant, restVars, loadVars, sessionFresh, missed, providerVars,
                  model, isInitialized, sequenceBuffer, callbackVars,
                  inflight, pushCount, lastEmitted, nEmitted >>

(***************************************************************************)
(* Specifications                                                          *)
(***************************************************************************)
NextPolling ==
  \/ \E ok \in BOOLEAN : initializeDetector(ok)
  \/ unmount
  \/ startDetection
  \/ stopDetection
  \/ clearHistory
  \/ \E hand \in BOOLEAN : processFrame(hand) /\ UNCHANGED missed
  \/ \E c \in inflight, d \in Distributions : predictResolved(c, d)
  \/ \E c \in inflight : predictFailed(c)
  \/ Tick(MaxTicks)

NextCallback ==
  \/ \E ok \in BOOLEAN : Detector_initialize(ok)
  \/ Detector_startDetection
  \/ Detector_stopDetection
  \/ Detector_dispose
  \/ \E points \in LandmarkCounts : processLandmarks(points)
  \/ \E c \in inflight, d \in Distributions : makePredictionResolved(c, d)
  \/ \E c \in inflight : makePredictionFailed(c)

NextThrottled ==
  \/ \E outcome \in InitOutcomes : Throttled_initialize(outcome)
  \/ Throttled_detectGesture(TRUE)
  \/ \E c \in inflight, d \in Distributions : Throttled_predictResolved(c, d)
  \/ \E c \in inflight : Throttled_predictFailed(c)
  \/ Throttled_dispose
  \/ FineTick

Next == NextPolling \/ NextCallback \/ NextThrottled

\* every behaviour of both builds, within the bounds
Spec == Init /\ [][Next]_vars

\* the polling build alone
InitPolling == Init /\ variant = "polling"

\* an uninterrupted detection session of the polling build: nobody stops
\* detection or unmounts the provider
NextSteady ==
  \/ initializeDetector(TRUE)
  \/ startDetection
  \/ clearHistory
  \/ \E hand \in BOOLEAN : processFrame(hand) /\ UNCHANGED missed
  \/ \E c \in inflight, d \in Distributions : predictResolved(c, d)
  \/ \E c \in inflight : predictFailed(c)
  \/ Tick(SteadyTicks)

SpecSteady == InitPolling /\ [][NextSteady]_vars

\* the uninterrupted session, with the frames handed to processFrame while
\* a prediction is pending
NextBusy ==
  \/ NextSteady
  \/ processFrameBusy(TRUE)

SpecBusy == InitPolling /\ [][NextBusy]_vars

\* a session of the polling build in which only the first two full windows
\* can be classified with confidence, every prediction settles within one
\* clock step, and the loop, the clock and the pending calls keep running
DecayDistributions(c) ==
  IF c.seen <= SEQUENCE_LENGTH + 1
    THEN Distributions
    ELSE { d \in Distributions : ~Accepted(Classify(d)) }

DecayTick == isDetecting /\ inflight = {} /\ Tick(DecayTicks)

DecayFrame ==
  \E hand \in BOOLEAN :
    /\ pushCount <= SEQUENCE_LENGTH => hand
    /\ processFrame(hand)
    /\ UNCHANGED missed

DecaySettle ==
  \E c \in inflight :
    \/ \E d \in DecayDistributions(c) : predictResolved(c, d)
    \/ predictFailed(c)

NextDecay ==
  \/ initializeDetector(TRUE)
  \/ startDetection
  \/ stopDetection
  \/ DecayFrame
  \/ DecaySettle
  \/ DecayTick

SpecDecay ==
  /\ InitPolling
  /\ [][NextDecay]_vars
  /\ WF_vars(initializeDetector(TRUE))
  /\ WF_vars(startDetection)
  /\ WF_vars(DecayFrame)
  /\ WF_vars(DecaySettle)
  /\ WF_vars(DecayTick)

\* processFrame with the observer `missed` kept: a processed tick without a
\* hand counts, one with a hand starts the count again
processFrameCounted(hand) ==
  /\ processFrame(hand)
  /\ missed' = IF hand THEN 0
                       ELSE IF missed < SEQUENCE_LENGTH THEN missed + 1
                                                        ELSE missed

\* a session of the polling build in which every prediction settles within
\* one clock step and the ticks without a hand are counted
GapTick == isDetecting /\ inflight = {} /\ Tick(GapTicks)

NextGap ==
  \/ initializeDetector(TRUE)
  \/ startDetection
  \/ stopDetection
  \/ \E hand \in BOOLEAN : processFrameCounted(hand)
  \/ \E c \in inflight, d \in Distributions : predictResolved(c, d)
  \/ GapTick

SpecGap == InitPolling /\ [][NextGap]_vars

\* the uninterrupted session with one more classifier output, a second
\* confident "hello", so that two accepted results can carry the same label
\* and different probabilities
ScenarioDistributions ==
  Distributions \cup { (0 :> 850000 @@ 1 :> 150000) }

NextDedup ==
  \/ initializeDetector(TRUE)
  \/ startDetection
  \/ clearHistory
  \/ \E hand \in BOOLEAN : processFrame(hand) /\ UNCHANGED missed
  \/ \E c \in inflight, d \in ScenarioDistributions : predictResolved(c, d)
  \/ \E c \in inflight : predictFailed(c)
  \/ Tick(DedupTicks)

SpecDedup == InitPolling /\ [][NextDedup]_vars

\* a long session of the polling build in which a hand is always visible,
\* every prediction settles within one clock step and the classifier answers
\* with alternating, confident labels
SoakDistribution(c) ==
  IF c.seen % 2 = 0 THEN (0 :> 650000 @@ 1 :> 350000)
                    ELSE (0 :> 100000 @@ 1 :> 900000)

SoakTick == isDetecting /\ inflight = {} /\ Tick(SoakTicks)

NextSoak ==
  \/ initializeDetector(TRUE)
  \/ startDetection
  \/ stopDetection
  \/ clearHistory
  \/ processFrame(TRUE) /\ UNCHANGED missed
  \/ \E c \in inflight : predictResolved(c, SoakDistribution(c))
  \/ SoakTick

SpecSoak == InitPolling /\ [][NextSoak]_vars

\* the provider while its detector loads: the progress timer, the outcome
\* of initialize(), the unmount, and the start of detection
NextLoad ==
  \/ \E step \in ProgressSteps : progressTick(step)
  \/ \E ok \in BOOLEAN : initializeDetector(ok)
  \/ unmount
  \/ startDetection

SpecLoad == InitPolling /\ [][NextLoad]_vars

\* the softmax outputs of the two-class model on a grid: the two
\* probabilities sum to 1
SoftmaxOutputs ==
  { (0 :> k * (1000000 \div GridPoints)
       @@ 1 :> 1000000 - k * (1000000 \div GridPoints)) : k \in 0..GridPoints }

\* detectGesture from `await prediction.data()` to its return, applied to
\* the distribution d: maxIndex, and the result handed to the caller
selectClass(d) ==
  /\ predictionData' = d
  /\ selectedIndex' = IndexOf(d, MathMax(d))
  /\ detected' = Classify(d)
  /\ UNCHANGED << variant, loadVars, lastPredictionTime, frameLength,
                  busySkip, sessionFresh, missed, now, providerVars, model,
                  isInitialized, sequenceBuffer, mediaPipe, camera,
                  onDetection, inflight, pushCount, lastEmitted, nEmitted >>

\* the classification step alone, over every distribution of the grid
NextSelect == \E d \in SoftmaxOutputs : selectClass(d)

SpecSelect == InitPolling /\ [][NextSelect]_vars

(***************************************************************************)
(* Claims                                                                  *)
(***************************************************************************)
\* the frames a window must hold when its newest frame is number `newest`
LastFrames(newest) == [i \in 1..SEQUENCE_LENGTH |-> newest - SEQUENCE_LENGTH + i]

\* a step in which the pending predict call c of the polling build settles
Settles(c) == variant = "polling" /\ c \in inflight /\ inflight' = inflight \ {c}

\* C1: in the provider, at most one detectGesture/model.predict call is
\* outstanding at any time, whatever the interleaving of processFrame,
\* stopDetection, startDetection and completions.
C1_SinglePredictOutstanding ==
  variant = "polling" => Cardinality(inflight) <= 1

\* C2: when stopDetection was called while a predict call was in flight, the
\* completion of that call appends no event to predictionHistory and changes
\* neither confidence nor currentPrediction.
C2_NoUpdateAfterStop ==
  [][ \A c \in inflight :
        (Settles(c) /\ c.stopped)
          => UNCHANGED << predictionHistory, confidence, currentPrediction >>
    ]_vars

\* C3: the sequence window never holds more than W = 30 frames.
C3_WindowBounded == Len(sequenceBuffer) <= SEQUENCE_LENGTH

C3_Witness ==
  /\ Len(sequenceBuffer) = SEQUENCE_LENGTH
  /\ pushCount > SEQUENCE_LENGTH

\* C4: the window handed to predict is exactly the last W pushed frames in
\* their arrival order (FIFO eviction).
C4_FifoWindow ==
  /\ \A c \in inflight : c.window = LastFrames(c.seen)
  /\ \A i \in 1..Len(sequenceBuffer) :
       sequenceBuffer[i] = pushCount - Len(sequenceBuffer) + i

C4_Witness ==
  \E c \in inflight : c.seen > SEQUENCE_LENGTH /\ c.window[1] > 1

\* C5: model.predict is only ever invoked on a window of exactly W = 30
\* frames, in the polling and in the callback-driven build.
C5_PredictOnFullWindow ==
  \A c \in inflight : Len(c.window) = SEQUENCE_LENGTH

C5_Witness ==
  /\ variant = "callback"
  /\ \E c \in inflight : c.stopped /\ Len(c.window) = SEQUENCE_LENGTH
  /\ camera
  /\ Len(sequenceBuffer) < SEQUENCE_LENGTH

\* C6: an accepted result with label L at time t appends a PredictionEvent
\* if and only if it is not the case that L is the label of the last emitted
\* event and t is less than 1000 ms after that event's timestamp.
C6_DedupRule ==
  [][ \A c \in inflight : \A d \in Distributions :
        (predictResolved(c, d) /\ Accepted(Classify(d)))
          => ( (predictionHistory' # predictionHistory)
                 <=> ~( /\ lastEmitted.gesture = Classify(d).gesture
                        /\ now - lastEmitted.timestamp < DEDUP_MS ) )
    ]_vars

C8_ClearedBelowThreshold ==
  confidence < CLEAR_THRESHOLD => currentPrediction = "none"

\* C9: predictionHistory never holds more than H = 50 events; an append to a
\* history of 50 events keeps the length at 50, drops exactly the oldest
\* event and keeps the other 49 in order, followed by the new event.
C9_HistoryBounded ==
  /\ [](Len(predictionHistory) <= HISTORY_LIMIT)
  /\ [][ (Len(predictionHistory) = HISTORY_LIMIT /\ nEmitted' # nEmitted)
           => /\ Len(predictionHistory') = HISTORY_LIMIT
              /\ SubSeq(predictionHistory', 1, HISTORY_LIMIT - 1)
                   = Tail(predictionHistory)
              /\ predictionHistory'[HISTORY_LIMIT] = lastEmitted'
              /\ lastEmitted'.timestamp = now
       ]_vars

C9_Witness ==
  /\ Len(predictionHistory) = HISTORY_LIMIT
  /\ nEmitted > HISTORY_LIMIT

\* C10: stopping detection empties the sequence window.
C10_StopResetsWindow ==
  [][ ((isDetecting /\ ~isDetecting') \/ (camera /\ ~camera'))
        => sequenceBuffer' = << >>
    ]_vars

\* C11: stopping resets the dedup memory: after stopDetection followed by
\* startDetection, the first accepted result of the new session always
\* appends a PredictionEvent, whatever its label and however recently an
\* event with the same label was appended before the stop.
C11_StopResetsDedup ==
  [][ \A c \in inflight : \A d \in Distributions :
        ( /\ predictResolved(c, d)
          /\ ~c.stopped
          /\ sessionFresh
          /\ Accepted(Classify(d)) )
          => /\ nEmitted' = nEmitted + 1
             /\ Len(predictionHistory') > 0
             /\ predictionHistory'[Len(predictionHistory')].timestamp = now
    ]_vars

\* C12: stopDetection and startDetection leave predictionHistory unchanged:
\* the events appended before a stop are still there, in the same order,
\* after any number of stop/start cycles; only clearHistory and appends
\* change the history.
C12_StopKeepsHistory ==
  [][ /\ (isDetecting' # isDetecting) => predictionHistory' = predictionHistory
      /\ (predictionHistory' # predictionHistory)
           => \/ clearHistory
              \/ /\ nEmitted' = nEmitted + 1
                 /\ predictionHistory' =
                      SliceLast(Append(predictionHistory, lastEmitted'),
                                HISTORY_LIMIT)
    ]_vars

C12_Witness ==
  /\ isDetecting
  /\ sessionFresh
  /\ Len(predictionHistory) >= 2
  /\ predictionHistory[1].timestamp < predictionHistory[2].timestamp

\* C13: when the classifier call fails during a tick, the tick is skipped:
\* the smoothed confidence is neither set nor decayed, no PredictionEvent is
\* appended, and the current gesture and the dedup memory are unchanged.
C13_FailureSkipsTick ==
  [][ \A c \in inflight :
        predictFailed(c)
          => UNCHANGED << confidence, currentPrediction, predictionHistory,
                          lastEmitted, nEmitted >>
    ]_vars

\* C14: a landmark frame whose length is not D = 42 is rejected and never
\* appended, so every frame in the sequence window and every row of a
\* predict input has length exactly 42.
C14_FramesWellFormed ==
  /\ \A i \in 1..Len(sequenceBuffer) :
       FrameLen(sequenceBuffer[i], frameLength) = LANDMARK_COUNT
  /\ \A c \in inflight : \A i \in 1..Len(c.window) :
       FrameLen(c.window[i], frameLength) = LANDMARK_COUNT

\* C15: rate-limit law: any two ticks on which inference is let through are
\* at least the throttle interval apart (500 ms in the provider, 200 ms in
\* the throttled detector), two callers never both pass the test for the
\* same interval.
C15_RateLimit ==
  /\ [][ (variant = "polling" /\ lastProcessTimeRef' # lastProcessTimeRef)
           => /\ lastProcessTimeRef' = now
              /\ now - lastProcessTimeRef >= THROTTLE_MS
       ]_vars
  /\ [](variant = "throttled"
          => \A c1, c2 \in inflight :
               c1 # c2 => \/ c1.now - c2.now >= PREDICT_THROTTLE_MS
                          \/ c2.now - c1.now >= PREDICT_THROTTLE_MS)

\* C16: a frame that arrives while a predict call is in flight is still
\* appended to the sequence window (evicting the oldest frame if the window
\* is full) and starts no new inference.
C16_PushWhileBusy ==
  [][ processFrameBusy(TRUE)
        => /\ sequenceBuffer' = PushFrame(sequenceBuffer, pushCount + 1)
           /\ pushCount' = pushCount + 1
           /\ inflight' = inflight
    ]_vars

\* a positive threshold below the clear threshold: a quarter of it
SmallThreshold == CLEAR_THRESHOLD \div 4

\* C17: the smoothed confidence always lies in [0, 1]; it only rises on an
\* accepted result, so it is non-increasing across ticks without one; and
\* when such ticks keep coming it eventually falls below the clear threshold
\* and below a smaller positive threshold.
C17_ConfidenceDecays ==
  /\ [](0 <= confidence /\ confidence <= 1000000)
  /\ [][ confidence' > confidence
           => \E c \in inflight : \E d \in Distributions :
                predictResolved(c, d) /\ Accepted(Classify(d))
       ]_vars
  /\ (confidence >= CLEAR_THRESHOLD) ~> (confidence < CLEAR_THRESHOLD)
  /\ (confidence >= SmallThreshold) ~> (confidence < SmallThreshold)

C17_Witness ==
  /\ isDetecting
  /\ 0 < confidence
  /\ confidence < SmallThreshold
  /\ nEmitted > 0

\* C18: predictionHistory is in non-decreasing timestamp order in every
\* reachable state, and each accepted result is tested for being a duplicate
\* against the history as the previous accepted result left it: it is
\* appended behind all the events that are there, or dropped, and no event
\* is lost or reordered, whatever the interleaving of completions,
\* stop/start and clearHistory.
C18_HistoryOrdered ==
  /\ [](\A i \in 1..(Len(predictionHistory) - 1) :
          predictionHistory[i].timestamp <= predictionHistory[i + 1].timestamp)
  /\ [][ \A c \in inflight : \A d \in Distributions :
           (predictResolved(c, d) /\ Accepted(Classify(d)))
             => LET newPrediction == [ gesture    |-> Classify(d).gesture,
                                       confidence |-> Classify(d).confidence,
                                       timestamp  |-> now ]
                IN  IF IsDuplicate(predictionHistory, newPrediction)
                      THEN predictionHistory' = predictionHistory
                      ELSE /\ predictionHistory'[Len(predictionHistory')]
                                = newPrediction
                           /\ SubSeq(predictionHistory', 1,
                                     Len(predictionHistory') - 1)
                                = SliceLast(predictionHistory,
                                            HISTORY_LIMIT - 1)
       ]_vars

C18_Witness ==
  /\ Len(predictionHistory) >= 2
  /\ predictionHistory[1].gesture = predictionHistory[2].gesture
  /\ predictionHistory[1].timestamp < predictionHistory[2].timestamp
  /\ Cardinality(inflight) = 2

\* C19: when the landmark source has reported no hand for W = 30
\* consecutive processed ticks, the sequence window is empty.
C19_GapResetsWindow ==
  missed >= SEQUENCE_LENGTH => sequenceBuffer = << >>

\* C20: Scenario B law: when an accepted result is dropped by the
\* deduplicator, it had the label of the last event and came less than
\* 1000 ms after it, no event is appended, and the smoothed confidence and
\* the current gesture are still set to the probability and the label of
\* the new result.
C20_DroppedResultStillShown ==
  [][ \A c \in inflight : \A d \in ScenarioDistributions :
        ( /\ predictResolved(c, d)
          /\ Accepted(Classify(d))
          /\ nEmitted' = nEmitted )
          => /\ predictionHistory' = predictionHistory
             /\ lastEmitted.gesture = Classify(d).gesture
             /\ now - lastEmitted.timestamp < DEDUP_MS
             /\ confidence' = Classify(d).confidence
             /\ currentPrediction' = Classify(d).gesture
    ]_vars

C20_Witness ==
  /\ nEmitted = 1
  /\ lastEmitted.gesture = "hello"
  /\ lastEmitted.confidence = 650000
  /\ lastEmitted.timestamp = now - ClockStep
  /\ predictionHistory = << lastEmitted >>
  /\ confidence = 850000
  /\ currentPrediction = "hello"

\* C21: when inference runs and the top probability of the distribution is
\* below the accept threshold, no PredictionEvent is appended, the history
\* and the last emitted event stay as they are, and the smoothed confidence
\* becomes nine tenths of its prior value (on the fixed-point grid), never
\* below 0.
C21_RejectedResultDecays ==
  [][ \A c \in inflight : \A d \in Distributions :
        (predictResolved(c, d) /\ MathMax(d) < ACCEPT_THRESHOLD)
          => /\ predictionHistory' = predictionHistory
             /\ lastEmitted' = lastEmitted
             /\ nEmitted' = nEmitted
             /\ confidence' >= 0
             /\ confidence' * 10 <= confidence * 9
             /\ confidence * 9 - confidence' * 10 < 10
    ]_vars

\* the frame after the one that gave the first event went through inference
\* and was not accepted: the confidence 0.65 of the event has become 0.585
C21_Witness ==
  /\ nEmitted = 1
  /\ Len(predictionHistory) = 1
  /\ pushCount = SEQUENCE_LENGTH + 1
  /\ inflight = {}
  /\ lastProcessTimeRef = lastEmitted.timestamp + THROTTLE_MS
  /\ lastEmitted.confidence = 650000
  /\ confidence = 585000

\* C22: the scheduler records the current time as the time of the last
\* inference only on a tick on which inference is performed (the interval
\* has elapsed and the window is full): whenever lastProcessTimeRef
\* changes, a predict call has been started in the same step.
C22_StampOnlyOnInference ==
  [][ lastProcessTimeRef' # lastProcessTimeRef
        => inflight' \ inflight # {}
    ]_vars

\* C23: the smoothed confidence is updated on every processFrame call made
\* while detecting: a call that does not produce an accepted result, a call
\* made while an inference is in flight included, multiplies the confidence
\* by the decay factor.
C23_DecayOnEveryCall ==
  [][ \A hand \in BOOLEAN :
        (processFrameBusy(hand) /\ isDetecting)
          => /\ confidence' * 10 <= confidence * 9
             /\ confidence * 9 - confidence' * 10 < 10
    ]_vars

\* the event the setPredictionHistory updater compares a new one with
DedupMemory(history) ==
  IF Len(history) > 0 THEN history[Len(history)] ELSE NoEvent

\* C24: a dropped (deduplicated) result leaves the dedup memory unchanged:
\* when a result completes, the label and timestamp the next result is
\* compared with change only if an event is emitted, and then they become
\* those of that event; the window is measured from the last emitted
\* event, so an accepted result that arrives at least 1000 ms after it is
\* emitted, also when it carries the same label.
C24_DropKeepsDedupMemory ==
  [][ \A c \in inflight : \A d \in ScenarioDistributions :
        predictResolved(c, d)
          => /\ (Accepted(Classify(d)) /\ nEmitted' = nEmitted)
                  => DedupMemory(predictionHistory')
                       = DedupMemory(predictionHistory)
             /\ DedupMemory(predictionHistory') # DedupMemory(predictionHistory)
                  => /\ nEmitted' = nEmitted + 1
                     /\ DedupMemory(predictionHistory').gesture
                          = Classify(d).gesture
                     /\ DedupMemory(predictionHistory').timestamp = now
             /\ (Accepted(Classify(d))
                   /\ now - lastEmitted.timestamp >= DEDUP_MS)
                  => /\ nEmitted' = nEmitted + 1
                     /\ DedupMemory(predictionHistory').timestamp = now
    ]_vars

\* thankyou was emitted, and the thankyou that came 500 ms later has been
\* dropped: the memory still holds the first one
C24_Witness ==
  /\ nEmitted = 1
  /\ pushCount = SEQUENCE_LENGTH + 1
  /\ inflight = {}
  /\ lastProcessTimeRef = now
  /\ confidence = 900000
  /\ DedupMemory(predictionHistory).gesture = "thankyou"
  /\ DedupMemory(predictionHistory).timestamp = now - ClockStep
  /\ DedupMemory(predictionHistory) = lastEmitted

\* C25: whether an accepted result is emitted or dropped depends only on
\* the last emitted label and timestamp, the result and the current time,
\* whatever the history holds: an accepted result with the label of the
\* last emitted event, less than 1000 ms after it, is dropped, also when
\* clearHistory ran in between.
C25_ClearKeepsDedupDecision ==
  [][ \A c \in inflight : \A d \in ScenarioDistributions :
        ( /\ predictResolved(c, d)
          /\ Accepted(Classify(d))
          /\ lastEmitted.gesture = Classify(d).gesture
          /\ now - lastEmitted.timestamp < DEDUP_MS )
          => /\ nEmitted' = nEmitted
             /\ Len(predictionHistory') = Len(predictionHistory)
    ]_vars

\* C27: the classifier is never invoked unless a model is bound: in every
\* reachable state of a detector (model loaded, fallback built, fallback
\* failed, disposed) isInitialized implies a non-null model; detectGesture
\* on an uninitialized or disposed detector leaves the window as it is;
\* a predict call is only started on an initialized detector with a model;
\* and startDetection sets isDetecting only when the model is loaded and
\* the detector is bound.
C27_ClassifierNeedsModel ==
  /\ [](isInitialized => model)
  /\ [][ (variant # "callback" /\ ~(isInitialized /\ model))
           => (sequenceBuffer' = sequenceBuffer \/ sequenceBuffer' = << >>)
       ]_vars
  /\ [][ (variant # "callback" /\ inflight' \ inflight # {})
           => (isInitialized /\ model)
       ]_vars
  /\ [][ (isDetecting' /\ ~isDetecting)
           => (modelLoaded /\ detectorRef /\ isInitialized /\ model)
       ]_vars

\* the throttled detector has been disposed after it had taken frames
C27_Witness ==
  /\ variant = "throttled"
  /\ initState = "ready"
  /\ pushCount > 0
  /\ ~isInitialized
  /\ ~model
  /\ sequenceBuffer = << >>

\* C28: the busy flag processingRef is set exactly while a detectGesture
\* call started by processFrame is outstanding: it is set before the call,
\* cleared when the call completes, and nothing clears it while a call is
\* outstanding.
C28_BusyIffOutstanding ==
  variant = "polling" => (processingRef <=> inflight # {})

\* C29: in every reachable state of predictionHistory, two adjacent events
\* with the same gesture label have timestamps at least 1000 ms apart;
\* append, eviction, clearHistory and stop/start preserve it.
C29_AdjacentSameLabelApart ==
  \A i \in 1..(Len(predictionHistory) - 1) :
    predictionHistory[i].gesture = predictionHistory[i + 1].gesture
      => predictionHistory[i + 1].timestamp - predictionHistory[i].timestamp
           >= DEDUP_MS

\* the same label twice in a row, exactly 1000 ms apart
C29_Witness ==
  /\ Len(predictionHistory) = 2
  /\ predictionHistory[1].gesture = "thankyou"
  /\ predictionHistory[2].gesture = "thankyou"
  /\ predictionHistory[2].timestamp
       = predictionHistory[1].timestamp + DEDUP_MS
  /\ isDetecting
  /\ sessionFresh = FALSE
  /\ nEmitted = 2

\* C26: the pipeline selects the label with the maximum probability, on a
\* tie the lowest-indexed of the maximal ones, and the confidence it
\* reports is the probability of that label: maxIndex holds a maximum of
\* the distribution, every lower index holds strictly less, and a result
\* that is returned carries the label and the probability at maxIndex.
\* The distribution determines the selection.
C26_ArgmaxLowestIndex ==
  predictionData # << >>
    => /\ selectedIndex \in DOMAIN predictionData
       /\ \A j \in DOMAIN predictionData :
            /\ predictionData[j] <= predictionData[selectedIndex]
            /\ j < selectedIndex => predictionData[j] < predictionData[selectedIndex]
       /\ detected # NoResult
            => /\ detected.gesture = labelMap[selectedIndex]
               /\ detected.confidence = predictionData[selectedIndex]
       /\ detected = NoResult
            => predictionData[selectedIndex] <= ACCEPT_THRESHOLD

\* the two classes tie at 0.5: the first one is selected
C26_Witness ==
  /\ predictionData # << >>
  /\ predictionData[0] = predictionData[1]
  /\ selectedIndex = 0

\* C30: when the initialization of the detector fails while the provider
\* is mounted, modelLoadingProgress is 0 and stays 0, modelLoaded stays
\* false and isDetecting is never set.
C30_FailedLoadStaysZero ==
  (initState = "failed" /\ isMounted)
    => /\ modelLoadingProgress = 0
       /\ ~modelLoaded
       /\ ~isDetecting
====
